---- MODULE Spec2Model ----
(***************************************************************************)
(* lib-router: the router state (utils/router_state.rs) and the router     *)
(* engine (types/router.rs).                                               *)
(*                                                                         *)
(* Representation.  A prost Timestamp and a chrono DateTime are records    *)
(* [seconds, nanos]; `timestamp()` is the seconds.  An f32 number of       *)
(* minutes is kept exactly, as an integer number of seconds; an f32        *)
(* distance in km is kept as an integer number of tenths of a km.  Rust's  *)
(* integer division truncates toward zero (TruncDiv).                      *)
(***************************************************************************)
EXTENDS Integers, Sequences, FiniteSets, TLC

VARIABLES NODES, ROUTER, call, procs

vars == <<NODES, ROUTER, call, procs>>

\* The value of an unset OnceCell and of an absent Option.
None == [set |-> FALSE]

----------------------------------------------------------------------------
\* Program constants (router_state.rs:52-69).

ARROW_CARGO_CONSTRAINT == 75
LOADING_AND_TAKEOFF_TIME_MIN == 10
LANDING_AND_UNLOADING_TIME_MIN == 10
AVG_SPEED_KMH == 60
FLIGHT_PLAN_GAP_MINUTES == 5
MAX_RETURNED_FLIGHT_PLANS == 10

----------------------------------------------------------------------------
\* Arithmetic and time.

\* i64 `/`: the quotient truncated toward zero.
TruncDiv(a, b) == IF a >= 0 THEN a \div b ELSE -((-a) \div b)

\* DateTime::timestamp().
timestamp(dt) == dt.seconds

\* date + Duration::minutes(m): the sub-second part is kept.
plus_minutes(dt, m) == [seconds |-> dt.seconds + m * 60, nanos |-> dt.nanos]

\* Calendar::is_available_between(a, b): the half-open interval [a, b) is
\* fully covered by the union of the calendar's availability intervals.  A
\* calendar is the set of its intervals <<start, end>>, in seconds.
is_available_between(calendar, a, b) ==
    LET Inside(x) == \E iv \in calendar : iv[1] <= x /\ x < iv[2]
        Ends == {iv[2] : iv \in calendar}
    IN  a.seconds < b.seconds =>
          /\ Inside(a.seconds)
          /\ \A e \in Ends : (a.seconds < e /\ e < b.seconds) => Inside(e)

----------------------------------------------------------------------------
\* Temporal feasibility (router_state.rs:71-365).

time_ranges_overlap(start1, end1, start2, end2) ==
    start1 < end2 /\ start2 < end1

is_vehicle_available_touching(vehicle, date_from, flight_duration_minutes, existing_flight_plans) ==
    LET date_to == plus_minutes(date_from, flight_duration_minutes)
        Conflicting(fp) ==
            /\ fp.vehicle_id = vehicle.id
            /\ fp.scheduled_departure.seconds <= timestamp(date_to)
            /\ timestamp(date_from) <= fp.scheduled_arrival.seconds
    IN  IF ~is_available_between(vehicle.schedule, date_from, date_to)
        THEN FALSE
        ELSE Len(SelectSeq(existing_flight_plans, Conflicting)) = 0

is_vehicle_available(vehicle, date_from, flight_duration_minutes, existing_flight_plans) ==
    LET date_to == plus_minutes(date_from, flight_duration_minutes)
        Conflicting(fp) ==
            /\ fp.vehicle_id = vehicle.id
            /\ time_ranges_overlap(fp.scheduled_departure.seconds, fp.scheduled_arrival.seconds,
                                   timestamp(date_from), timestamp(date_to))
        conflicting_flight_plans_count ==
            Len(SelectSeq(existing_flight_plans, Conflicting))
    IN  IF ~is_available_between(vehicle.schedule, date_from, date_to)
        THEN FALSE
        ELSE IF conflicting_flight_plans_count > 0 THEN FALSE ELSE TRUE

is_vertiport_available_closed(vertiport, date_from, existing_flight_plans, is_departure_vertiport) ==
    LET block == IF is_departure_vertiport THEN LOADING_AND_TAKEOFF_TIME_MIN
                 ELSE LANDING_AND_UNLOADING_TIME_MIN
        date_to == plus_minutes(date_from, block)
        Conflicting(fp) ==
            IF is_departure_vertiport
            THEN /\ fp.departure_vertiport_id = vertiport.id
                 /\ fp.scheduled_departure.seconds >= timestamp(date_from) - block * 60
                 /\ fp.scheduled_departure.seconds < timestamp(date_to) + block * 60
            ELSE /\ fp.destination_vertiport_id = vertiport.id
                 /\ fp.scheduled_arrival.seconds >= timestamp(date_from) - block * 60
                 /\ fp.scheduled_arrival.seconds < timestamp(date_to) + block * 60
    IN  IF ~is_available_between(vertiport.schedule, date_from, date_to)
        THEN FALSE
        ELSE Len(SelectSeq(existing_flight_plans, Conflicting)) = 0

\* The same check with the guard band left out of the lower bound.
is_vertiport_available_unpadded(vertiport, date_from, existing_flight_plans, is_departure_vertiport) ==
    LET block == IF is_departure_vertiport THEN LOADING_AND_TAKEOFF_TIME_MIN
                 ELSE LANDING_AND_UNLOADING_TIME_MIN
        date_to == plus_minutes(date_from, block)
        Conflicting(fp) ==
            IF is_departure_vertiport
            THEN /\ fp.departure_vertiport_id = vertiport.id
                 /\ fp.scheduled_departure.seconds > timestamp(date_from)
                 /\ fp.scheduled_departure.seconds < timestamp(date_to) + block * 60
            ELSE /\ fp.destination_vertiport_id = vertiport.id
                 /\ fp.scheduled_arrival.seconds > timestamp(date_from)
                 /\ fp.scheduled_arrival.seconds < timestamp(date_to) + block * 60
    IN  IF ~is_available_between(vertiport.schedule, date_from, date_to)
        THEN FALSE
        ELSE Len(SelectSeq(existing_flight_plans, Conflicting)) = 0

\* The same check reading both ends of every plan: a departure from the
\* site and an arrival at the site both count, whatever the role.
is_vertiport_available_both_ends(vertiport, date_from, existing_flight_plans, is_departure_vertiport) ==
    LET block == IF is_departure_vertiport THEN LOADING_AND_TAKEOFF_TIME_MIN
                 ELSE LANDING_AND_UNLOADING_TIME_MIN
        date_to == plus_minutes(date_from, block)
        Conflicting(fp) ==
            \/ /\ fp.departure_vertiport_id = vertiport.id
               /\ fp.scheduled_departure.seconds > timestamp(date_from) - block * 60
               /\ fp.scheduled_departure.seconds < timestamp(date_to) + block * 60
            \/ /\ fp.destination_vertiport_id = vertiport.id
               /\ fp.scheduled_arrival.seconds > timestamp(date_from) - block * 60
               /\ fp.scheduled_arrival.seconds < timestamp(date_to) + block * 60
    IN  IF ~is_available_between(vertiport.schedule, date_from, date_to)
        THEN FALSE
        ELSE Len(SelectSeq(existing_flight_plans, Conflicting)) = 0

is_vertiport_available(vertiport, date_from, existing_flight_plans, is_departure_vertiport) ==
    LET block_vertiport_minutes ==
            IF is_departure_vertiport THEN LOADING_AND_TAKEOFF_TIME_MIN
            ELSE LANDING_AND_UNLOADING_TIME_MIN
        date_to == plus_minutes(date_from, block_vertiport_minutes)
        Conflicting(fp) ==
            IF is_departure_vertiport
            THEN /\ fp.departure_vertiport_id = vertiport.id
                 /\ fp.scheduled_departure.seconds
                      > timestamp(date_from) - block_vertiport_minutes * 60
                 /\ fp.scheduled_departure.seconds
                      < timestamp(date_to) + block_vertiport_minutes * 60
            ELSE /\ fp.destination_vertiport_id = vertiport.id
                 /\ fp.scheduled_arrival.seconds
                      > timestamp(date_from) - block_vertiport_minutes * 60
                 /\ fp.scheduled_arrival.seconds
                      < timestamp(date_to) + block_vertiport_minutes * 60
        conflicting_flight_plans_count ==
            Len(SelectSeq(existing_flight_plans, Conflicting))
    IN  IF ~is_available_between(vertiport.schedule, date_from, date_to)
        THEN FALSE
        ELSE conflicting_flight_plans_count = 0

\* slice::sort_by(|a, b| b.scheduled_departure.seconds.cmp(a.scheduled_departure.seconds)):
\* a stable sort, newest departure first.
RECURSIVE sort_by_departure_desc(_)
sort_by_departure_desc(s) ==
    IF Len(s) <= 1 THEN s
    ELSE LET rest == sort_by_departure_desc(SubSeq(s, 1, Len(s) - 1))
             x == s[Len(s)]
             \* x goes behind every element that departs no earlier than it
             k == Cardinality({i \in 1..Len(rest) :
                                 rest[i].scheduled_departure.seconds >= x.scheduled_departure.seconds})
         IN  SubSeq(rest, 1, k) \o <<x>> \o SubSeq(rest, k + 1, Len(rest))

get_vehicle_scheduled_location_oldest(vehicle, ts, existing_flight_plans) ==
    LET Mine(fp) == /\ fp.vehicle_id = vehicle.id
                    /\ fp.scheduled_departure.seconds <= timestamp(ts)
        vehicle_flight_plans ==
            sort_by_departure_desc(SelectSeq(existing_flight_plans, Mine))
    IN  IF vehicle_flight_plans = <<>>
        THEN [vertiport_id |-> vehicle.last_vertiport_id, minutes_to_arrival |-> 0]
        ELSE LET fp == vehicle_flight_plans[Len(vehicle_flight_plans)]
                 m == TruncDiv(fp.scheduled_arrival.seconds - timestamp(ts), 60)
             IN  [vertiport_id |-> fp.destination_vertiport_id,
                  minutes_to_arrival |-> IF m < 0 THEN 0 ELSE m]

get_vehicle_scheduled_location(vehicle, ts, existing_flight_plans) ==
    LET Mine(fp) == /\ fp.vehicle_id = vehicle.id
                    /\ fp.scheduled_departure.seconds <= timestamp(ts)
        vehicle_flight_plans ==
            sort_by_departure_desc(SelectSeq(existing_flight_plans, Mine))
    IN  IF vehicle_flight_plans = <<>>
        THEN [vertiport_id |-> vehicle.last_vertiport_id, minutes_to_arrival |-> 0]
        ELSE LET vehicle_flight_plan == Head(vehicle_flight_plans)
                 minutes_to_arrival ==
                     TruncDiv(vehicle_flight_plan.scheduled_arrival.seconds - timestamp(ts), 60)
             IN  [vertiport_id |-> vehicle_flight_plan.destination_vertiport_id,
                  minutes_to_arrival |->
                      IF minutes_to_arrival < 0 THEN 0 ELSE minutes_to_arrival]

----------------------------------------------------------------------------
\* Input spaces of the temporal feasibility functions.

MaxHelperPlans == 2

\* A prost Timestamp of whole seconds.
Timestamp(seconds) == [seconds |-> seconds, nanos |-> 0]

FlightPlan(v, from, to, dep, arr) ==
    [vehicle_id |-> v, departure_vertiport_id |-> from,
     destination_vertiport_id |-> to,
     scheduled_departure |-> Timestamp(dep), scheduled_arrival |-> Timestamp(arr)]

SeqsUpTo(S, n) == UNION {[1..k -> S] : k \in 0..n}

AlwaysAvailable == {<<-100000, 100000>>}

\* Calendars around an interval [t, t + len): always available, exactly the
\* interval, one second short of it, and two adjacent instances covering it.
CalendarsAt(t, len) ==
    {AlwaysAvailable, {<<t, t + len>>}, {<<t, t + len - 1>>},
     {<<t, t + 300>>, <<t + 300, t + len>>}}

HelperStarts == {[seconds |-> 0, nanos |-> 0], [seconds |-> 90, nanos |-> 1]}

\* Offsets, from the start of the block, of the scheduled time the endpoint
\* check reads: on and next to both ends of the guard band, and inside it.
GuardOffsets == {-600, -599, 0, 1199, 1200}

\* Plans for the endpoint check of site s1 at t: the endpoint the role reads
\* is s1 or s2, its time is t + a guard offset; the other time is t or far.
VertiportCheckPlans(t, is_departure) ==
    {IF is_departure
       THEN FlightPlan("v1", from, IF from = "s1" THEN "s2" ELSE "s1", t + o, t + x)
       ELSE FlightPlan("v1", IF from = "s1" THEN "s2" ELSE "s1", from, t + x, t + o) :
     from \in {"s1", "s2"}, o \in GuardOffsets, x \in {0, 3000}}

HelperDurations == {50, 52}

\* Plans for the vehicle check of v1 over [t, t + d): plans of v1 and of v2
\* that end at t, end just after t, start at t + d, start just before t + d,
\* lie inside the interval, or enclose it.
VehicleCheckPlans(t, d) ==
    {FlightPlan(v, "s1", "s2", t + iv[1], t + iv[2]) :
     v \in {"v1", "v2"},
     iv \in {<<-3000, 0>>, <<-3000, 1>>, <<d, d + 3000>>, <<d - 1, d + 3000>>,
             <<600, 1200>>, <<-600, d + 600>>}}

\* Plans for the position forecast of v1 at t: of v1 and v2, to s1 or s2,
\* departing before, at and after t, landing before t, within the minute
\* after t, and later.
LocationPlans(t) ==
    {FlightPlan(v, "s3", to, t + dep, t + arr) :
     v \in {"v1", "v2"}, to \in {"s1", "s2"}, dep \in {-600, 0, 1},
     arr \in {-30, 59, 90}}

----------------------------------------------------------------------------
\* The temporal feasibility functions applied to drawn inputs.

IsVertiportAvailableCall ==
    /\ call.op = "none"
    /\ \E date_from \in HelperStarts, is_departure \in BOOLEAN :
      \E schedule \in CalendarsAt(date_from.seconds, 600),
         plans \in SeqsUpTo(VertiportCheckPlans(date_from.seconds, is_departure),
                            MaxHelperPlans) :
        LET vertiport == [id |-> "s1", schedule |-> schedule]
        IN  /\ call' = [op |-> "is_vertiport_available",
                        vertiport |-> vertiport, date_from |-> date_from,
                        plans |-> plans, is_departure |-> is_departure,
                        result |-> is_vertiport_available(vertiport, date_from,
                                                          plans, is_departure)]
            /\ UNCHANGED <<NODES, ROUTER, procs>>

IsVehicleAvailableCall ==
    /\ call.op = "none"
    /\ \E date_from \in HelperStarts, duration \in HelperDurations :
      \E schedule \in CalendarsAt(date_from.seconds, duration * 60),
         plans \in SeqsUpTo(VehicleCheckPlans(date_from.seconds, duration * 60),
                            MaxHelperPlans) :
        LET vehicle == [id |-> "v1", schedule |-> schedule,
                        last_vertiport_id |-> "s1"]
        IN  /\ call' = [op |-> "is_vehicle_available",
                        vehicle |-> vehicle, date_from |-> date_from,
                        duration |-> duration, plans |-> plans,
                        result |-> is_vehicle_available(vehicle, date_from,
                                                        duration, plans)]
            /\ UNCHANGED <<NODES, ROUTER, procs>>

GetVehicleScheduledLocationCall ==
    /\ call.op = "none"
    /\ \E ts \in HelperStarts, last \in {"s1", "s2"} :
      \E plans \in SeqsUpTo(LocationPlans(ts.seconds), MaxHelperPlans) :
        LET vehicle == [id |-> "v1", schedule |-> AlwaysAvailable,
                        last_vertiport_id |-> last]
        IN  /\ call' = [op |-> "get_vehicle_scheduled_location",
                        vehicle |-> vehicle, timestamp |-> ts, plans |-> plans,
                        result |-> get_vehicle_scheduled_location(vehicle, ts, plans)]
            /\ UNCHANGED <<NODES, ROUTER, procs>>

InitHelpers ==
    NODES = None /\ ROUTER = None /\ call = [op |-> "none"] /\ procs = <<>>

NextHelpers ==
    \/ IsVertiportAvailableCall
    \/ IsVehicleAvailableCall
    \/ GetVehicleScheduledLocationCall

SpecHelpers == InitHelpers /\ [][NextHelpers]_vars

----------------------------------------------------------------------------
\* Properties of the temporal feasibility functions (SpecHelpers).  Times
\* are compared at the resolution of whole seconds, as the code does.

\* C8: is_vertiport_available is true if and only if the site calendar
\* covers [t_start, t_start + block) and no existing plan whose role
\* endpoint is the site (departure site and scheduled departure for a
\* departure check, arrival site and scheduled arrival for an arrival
\* check) has that time strictly inside (t_start - block, t_start + 2*block);
\* a plan exactly on either boundary is no conflict.
C8_VertiportAvailableIff ==
    call.op = "is_vertiport_available" =>
      LET t == call.date_from.seconds
          block == 60 * (IF call.is_departure THEN LOADING_AND_TAKEOFF_TIME_MIN
                         ELSE LANDING_AND_UNLOADING_TIME_MIN)
          RoleSite(p) == IF call.is_departure THEN p.departure_vertiport_id
                         ELSE p.destination_vertiport_id
          RoleTime(p) == IF call.is_departure THEN p.scheduled_departure.seconds
                         ELSE p.scheduled_arrival.seconds
          covered == is_available_between(call.vertiport.schedule, call.date_from,
                         [seconds |-> t + block, nanos |-> call.date_from.nanos])
          InBand(p) == /\ RoleSite(p) = call.vertiport.id
                       /\ t - block < RoleTime(p)
                       /\ RoleTime(p) < t + 2 * block
      IN  call.result <=>
            (covered /\ \A i \in 1..Len(call.plans) : ~InBand(call.plans[i]))

\* C8 witness: the site is reported available although one plan at the site
\* sits exactly on the lower boundary and another exactly on the upper one.
C8_Witness ==
    /\ call.op = "is_vertiport_available"
    /\ call.result
    /\ \E i, j \in 1..Len(call.plans) :
         LET t == call.date_from.seconds
             RoleSite(p) == IF call.is_departure THEN p.departure_vertiport_id
                            ELSE p.destination_vertiport_id
             RoleTime(p) == IF call.is_departure THEN p.scheduled_departure.seconds
                            ELSE p.scheduled_arrival.seconds
         IN  /\ RoleSite(call.plans[i]) = call.vertiport.id
             /\ RoleSite(call.plans[j]) = call.vertiport.id
             /\ RoleTime(call.plans[i]) = t - 600
             /\ RoleTime(call.plans[j]) = t + 1200

\* C9: is_vehicle_available is true if and only if the vehicle's schedule
\* covers [t_start, t_start + duration) and no existing plan of the same
\* vehicle has (scheduled_departure, scheduled_arrival) overlapping that
\* interval (departure < end and start < arrival), so that a plan touching
\* the interval at an end does not block; plans of other vehicles never count.
C9_VehicleAvailableIff ==
    call.op = "is_vehicle_available" =>
      LET t == call.date_from.seconds
          end == t + 60 * call.duration
          covered == is_available_between(call.vehicle.schedule, call.date_from,
                         [seconds |-> end, nanos |-> call.date_from.nanos])
          Blocks(p) == /\ p.vehicle_id = call.vehicle.id
                       /\ p.scheduled_departure.seconds < end
                       /\ t < p.scheduled_arrival.seconds
      IN  call.result <=>
            (covered /\ \A i \in 1..Len(call.plans) : ~Blocks(call.plans[i]))

\* C9 witness: the vehicle is reported available with one plan of its own
\* that ends exactly at t_start and an overlapping plan of another vehicle.
C9_Witness ==
    /\ call.op = "is_vehicle_available"
    /\ call.result
    /\ \E i, j \in 1..Len(call.plans) :
         /\ call.plans[i].vehicle_id = call.vehicle.id
         /\ call.plans[i].scheduled_arrival.seconds = call.date_from.seconds
         /\ call.plans[j].vehicle_id # call.vehicle.id
         /\ call.plans[j].scheduled_departure.seconds < call.date_from.seconds + 60 * call.duration
         /\ call.date_from.seconds < call.plans[j].scheduled_arrival.seconds

\* C10: get_vehicle_scheduled_location returns (last_vertiport_id, 0) when
\* no plan of the vehicle departs at or before t; otherwise, for the plan of
\* the vehicle with the greatest scheduled departure <= t (the first such
\* plan in list order when several share it), it returns that plan's arrival
\* site and max(0, (scheduled_arrival - t) / 60) in whole minutes.  Plans of
\* other vehicles and plans departing after t take no part.
C10_ScheduledLocation ==
    call.op = "get_vehicle_scheduled_location" =>
      LET t == call.timestamp.seconds
          Own == {i \in 1..Len(call.plans) :
                    /\ call.plans[i].vehicle_id = call.vehicle.id
                    /\ call.plans[i].scheduled_departure.seconds <= t}
          Newest == CHOOSE i \in Own : \A j \in Own :
                      \/ call.plans[j].scheduled_departure.seconds < call.plans[i].scheduled_departure.seconds
                      \/ /\ call.plans[j].scheduled_departure.seconds = call.plans[i].scheduled_departure.seconds
                         /\ i <= j
          left == call.plans[Newest].scheduled_arrival.seconds - t
      IN  IF Own = {}
          THEN call.result = [vertiport_id |-> call.vehicle.last_vertiport_id,
                              minutes_to_arrival |-> 0]
          ELSE call.result = [vertiport_id |-> call.plans[Newest].destination_vertiport_id,
                              minutes_to_arrival |-> IF left <= 0 THEN 0 ELSE left \div 60]

\* C10 witness: two plans of the vehicle depart at different times at or
\* before t toward different sites, and the forecast is a flight still under way.
C10_Witness ==
    /\ call.op = "get_vehicle_scheduled_location"
    /\ Len(call.plans) = 2
    /\ \A i \in 1..2 : /\ call.plans[i].vehicle_id = call.vehicle.id
                       /\ call.plans[i].scheduled_departure.seconds <= call.timestamp.seconds
    /\ call.plans[1].scheduled_departure.seconds # call.plans[2].scheduled_departure.seconds
    /\ call.plans[1].destination_vertiport_id # call.plans[2].destination_vertiport_id
    /\ call.result.minutes_to_arrival > 0

\* C11: a forecast of minutes_to_arrival = 0 means the vehicle is parked at
\* t (it has no plan departing at or before t, or the newest such plan has
\* scheduled_arrival <= t), and a vehicle still en route at t
\* (scheduled_arrival > t) is forecast with minutes_to_arrival > 0.
C11_ZeroMeansParked ==
    call.op = "get_vehicle_scheduled_location" =>
      LET t == call.timestamp.seconds
          Own == {i \in 1..Len(call.plans) :
                    /\ call.plans[i].vehicle_id = call.vehicle.id
                    /\ call.plans[i].scheduled_departure.seconds <= t}
          Newest == CHOOSE i \in Own : \A j \in Own :
                      \/ call.plans[j].scheduled_departure.seconds < call.plans[i].scheduled_departure.seconds
                      \/ /\ call.plans[j].scheduled_departure.seconds = call.plans[i].scheduled_departure.seconds
                         /\ i <= j
      IN  Own # {} =>
            /\ call.result.minutes_to_arrival = 0
                  => call.plans[Newest].scheduled_arrival.seconds <= t
            /\ call.plans[Newest].scheduled_arrival.seconds > t
                  => call.result.minutes_to_arrival > 0

----------------------------------------------------------------------------
\* Sites, edges and the router engine (utils/graph.rs, types/router.rs).

\* A Node: its uid and its location.  A location is a position on a line,
\* in tenths of a km.
Node(uid, location) == [uid |-> uid, location |-> location]

\* haversine::distance in tenths of a km: non-negative, symmetric, zero for
\* identical coordinates.
distance(a, b) == IF a >= b THEN a - b ELSE b - a

\* An edge builder that also pairs a node with itself.
RECURSIVE build_edges_from_with_loops(_, _, _, _)
build_edges_from_with_loops(nodes, constraint, i, j) ==
    IF i > Len(nodes) THEN <<>>
    ELSE IF j > Len(nodes) THEN build_edges_from_with_loops(nodes, constraint, i + 1, 1)
    ELSE LET from == nodes[i]
             to == nodes[j]
             rest == build_edges_from_with_loops(nodes, constraint, i, j + 1)
         IN  IF distance(from.location, to.location) <= constraint * 10
             THEN <<[from |-> from, to |-> to,
                     cost |-> distance(from.location, to.location)]>> \o rest
             ELSE rest

build_edges_with_loops(nodes, constraint) == build_edges_from_with_loops(nodes, constraint, 1, 1)

\* build_edges with the constraint and cost functions of init_router: every
\* ordered pair of distinct nodes within the constraint (in km), outer loop
\* over `from`, inner loop over `to`.
RECURSIVE build_edges_from(_, _, _, _)
build_edges_from(nodes, constraint, i, j) ==
    IF i > Len(nodes) THEN <<>>
    ELSE IF j > Len(nodes) THEN build_edges_from(nodes, constraint, i + 1, 1)
    ELSE LET from == nodes[i]
             to == nodes[j]
             rest == build_edges_from(nodes, constraint, i, j + 1)
         IN  IF from # to /\ distance(from.location, to.location) <= constraint * 10
             THEN <<[from |-> from, to |-> to,
                     cost |-> distance(from.location, to.location)]>> \o rest
             ELSE rest

build_edges(nodes, constraint) == build_edges_from(nodes, constraint, 1, 1)

\* The nodes of a sequence in order of first appearance.
RECURSIVE first_seen(_, _)
first_seen(s, seen) ==
    IF s = <<>> THEN seen
    ELSE first_seen(Tail(s),
                    IF \E k \in 1..Len(seen) : seen[k] = Head(s)
                    THEN seen ELSE Append(seen, Head(s)))

\* A router whose vertices are the edge endpoints only.
RouterNew_edges_only(nodes, constraint) ==
    LET edges == build_edges(nodes, constraint)
        RECURSIVE ends(_)
        ends(es) == IF es = <<>> THEN <<>>
                    ELSE <<Head(es).from, Head(es).to>> \o ends(Tail(es))
    IN  [set |-> TRUE,
         graph |-> first_seen(ends(edges), <<>>),
         edges |-> edges]

\* Router::new: the vertices are the edge endpoints in order of first
\* appearance, then every node not yet present; a vertex's index is its
\* position in `graph`.
RouterNew(nodes, constraint) ==
    LET edges == build_edges(nodes, constraint)
        RECURSIVE ends(_)
        ends(es) == IF es = <<>> THEN <<>>
                    ELSE <<Head(es).from, Head(es).to>> \o ends(Tail(es))
    IN  [set |-> TRUE,
         graph |-> first_seen(nodes, first_seen(ends(edges), <<>>)),
         edges |-> edges]

\* Router::get_node_index: None for a node that is no vertex.
get_node_index(router, node) ==
    IF \E k \in 1..Len(router.graph) : router.graph[k] = node
    THEN CHOOSE k \in 1..Len(router.graph) : router.graph[k] = node
    ELSE 0

\* heuristic_function.unwrap_or(|_| 0.0) applied to a vertex: a heuristic
\* is None or [set |-> TRUE, f |-> the estimate of every vertex index].
estimate_cost(heuristic_function, v) ==
    IF heuristic_function = None THEN 0 ELSE heuristic_function.f[v]

\* An edge loop that also takes an equal score as an improvement.
RECURSIVE astar_edges_replace_ties(_, _, _, _, _, _)
astar_edges_replace_ties(router, heuristic_function, node, node_score, k, st) ==
    IF k = 0 THEN st
    ELSE LET e == router.edges[k]
             next == get_node_index(router, e.to)
             next_score == node_score + e.cost
         IN  IF e.from # router.graph[node]
                \/ (next \in st.scored /\ st.scores[next] < next_score)
             THEN astar_edges_replace_ties(router, heuristic_function, node, node_score, k - 1, st)
             ELSE astar_edges_replace_ties(router, heuristic_function, node, node_score, k - 1,
                    [scored |-> st.scored \cup {next},
                     scores |-> [st.scores EXCEPT ![next] = next_score],
                     prev |-> [st.prev EXCEPT ![next] = node],
                     estimated |-> st.estimated,
                     estimate_scores |-> st.estimate_scores,
                     pushes |-> st.pushes + 1,
                     visit_next |-> st.visit_next \cup
                        {<<next_score + estimate_cost(heuristic_function, next),
                           next, st.pushes + 1>>}])

\* An edge loop that counts every edge as one unit of cost.
RECURSIVE astar_edges_unweighted(_, _, _, _, _, _)
astar_edges_unweighted(router, heuristic_function, node, node_score, k, st) ==
    IF k = 0 THEN st
    ELSE LET e == router.edges[k]
             next == get_node_index(router, e.to)
             next_score == node_score + 1
         IN  IF e.from # router.graph[node]
                \/ (next \in st.scored /\ st.scores[next] <= next_score)
             THEN astar_edges_unweighted(router, heuristic_function, node, node_score, k - 1, st)
             ELSE astar_edges_unweighted(router, heuristic_function, node, node_score, k - 1,
                    [scored |-> st.scored \cup {next},
                     scores |-> [st.scores EXCEPT ![next] = next_score],
                     prev |-> [st.prev EXCEPT ![next] = node],
                     estimated |-> st.estimated,
                     estimate_scores |-> st.estimate_scores,
                     pushes |-> st.pushes + 1,
                     visit_next |-> st.visit_next \cup
                        {<<next_score + estimate_cost(heuristic_function, next),
                           next, st.pushes + 1>>}])

\* The edge loop of petgraph::algo::astar for the vertex `node` popped with
\* score `node_score`, from edge k down: the outgoing edges are visited
\* newest first; an edge that gives its target a strictly smaller score
\* records the score and the predecessor and pushes the target on the heap.
\* A heap entry is <<estimate, vertex, push number>>.
RECURSIVE astar_edges(_, _, _, _, _, _)
astar_edges(router, heuristic_function, node, node_score, k, st) ==
    IF k = 0 THEN st
    ELSE LET e == router.edges[k]
             next == get_node_index(router, e.to)
             next_score == node_score + e.cost
         IN  IF e.from # router.graph[node]
                \/ (next \in st.scored /\ st.scores[next] <= next_score)
             THEN astar_edges(router, heuristic_function, node, node_score, k - 1, st)
             ELSE astar_edges(router, heuristic_function, node, node_score, k - 1,
                    [scored |-> st.scored \cup {next},
                     scores |-> [st.scores EXCEPT ![next] = next_score],
                     prev |-> [st.prev EXCEPT ![next] = node],
                     estimated |-> st.estimated,
                     estimate_scores |-> st.estimate_scores,
                     pushes |-> st.pushes + 1,
                     visit_next |-> st.visit_next \cup
                        {<<next_score + estimate_cost(heuristic_function, next),
                           next, st.pushes + 1>>}])

\* The main loop of petgraph::algo::astar: pop the entry of least estimate
\* (the binary heap fixes the order among equal estimates; here the one
\* pushed first, which no score depends on); the goal ends the search;
\* a vertex already expanded with an estimate no greater is dropped; else
\* its edges are relaxed.  None when the heap runs empty.
RECURSIVE astar_search(_, _, _, _)
astar_search(router, to, heuristic_function, st) ==
    IF st.visit_next = {} THEN None
    ELSE LET top == CHOOSE e \in st.visit_next : \A o \in st.visit_next :
                      e[1] < o[1] \/ (e[1] = o[1] /\ e[3] <= o[3])
             node == top[2]
             popped == [st EXCEPT !.visit_next = st.visit_next \ {top}]
         IN  IF node = to
             THEN [set |-> TRUE, score |-> st.scores, prev |-> st.prev]
             ELSE IF node \in st.estimated /\ st.estimate_scores[node] <= top[1]
             THEN astar_search(router, to, heuristic_function, popped)
             ELSE astar_search(router, to, heuristic_function,
                    astar_edges(router, heuristic_function, node,
                        st.scores[node], Len(router.edges),
                        [popped EXCEPT !.estimated = @ \cup {node},
                                       !.estimate_scores[node] = top[1]]))

\* petgraph::algo::astar from the vertex `from`.
astar(router, from, to, heuristic_function) ==
    LET V == 1..Len(router.graph)
    IN  astar_search(router, to, heuristic_function,
          [scored |-> {from}, scores |-> [v \in V |-> 0],
           prev |-> [v \in V |-> 0],
           estimated |-> {}, estimate_scores |-> [v \in V |-> 0],
           pushes |-> 0,
           visit_next |-> {<<estimate_cost(heuristic_function, from), from, 0>>}])

\* The path without its first vertex.
RECURSIVE path_to_without_start(_, _, _)
path_to_without_start(prev, from, v) ==
    IF v = from THEN <<>> ELSE Append(path_to_without_start(prev, from, prev[v]), v)

\* The path the predecessors give, from `from` to v.
RECURSIVE path_to(_, _, _)
path_to(prev, from, v) ==
    IF v = from THEN <<v>> ELSE Append(path_to(prev, from, prev[v]), v)

\* A query that answers a missing path with the start vertex alone.
find_shortest_path_or_start(router, from, to, algorithm, heuristic_function) ==
    LET from_index == get_node_index(router, from)
        to_index == get_node_index(router, to)
    IN  IF from_index # 0 /\ to_index # 0
        THEN LET found == astar(router, from_index, to_index, heuristic_function)
             IN  IF found.set
                 THEN [cost |-> found.score[to_index],
                       path |-> path_to(found.prev, from_index, to_index)]
                 ELSE [cost |-> 0, path |-> <<from_index>>]
        ELSE [cost |-> -1, path |-> <<>>]

\* A query that answers an unknown endpoint like a missing path.
find_shortest_path_no_sentinel(router, from, to, algorithm, heuristic_function) ==
    LET from_index == get_node_index(router, from)
        to_index == get_node_index(router, to)
    IN  IF from_index # 0 /\ to_index # 0
        THEN LET found == astar(router, from_index, to_index, heuristic_function)
             IN  IF found.set
                 THEN [cost |-> found.score[to_index],
                       path |-> path_to(found.prev, from_index, to_index)]
                 ELSE [cost |-> 0, path |-> <<>>]
        ELSE [cost |-> 0, path |-> <<>>]

\* A query that answers a missing path like an unknown endpoint.
find_shortest_path_one_sentinel(router, from, to, algorithm, heuristic_function) ==
    LET from_index == get_node_index(router, from)
        to_index == get_node_index(router, to)
    IN  IF from_index # 0 /\ to_index # 0
        THEN LET found == astar(router, from_index, to_index, heuristic_function)
             IN  IF found.set
                 THEN [cost |-> found.score[to_index],
                       path |-> path_to(found.prev, from_index, to_index)]
                 ELSE [cost |-> -1, path |-> <<>>]
        ELSE [cost |-> -1, path |-> <<>>]

\* Router::find_shortest_path: (-1, []) for an unknown endpoint, (0, [])
\* when there is no path, else the cost and the vertex indices of the path
\* astar found; both algorithm tags run the same astar.
find_shortest_path(router, from, to, algorithm, heuristic_function) ==
    LET from_index == get_node_index(router, from)
        to_index == get_node_index(router, to)
    IN  IF from_index # 0 /\ to_index # 0
        THEN LET found == IF algorithm = "Dijkstra"
                          THEN astar(router, from_index, to_index, heuristic_function)
                          ELSE astar(router, from_index, to_index, heuristic_function)
             IN  IF found.set
                 THEN [cost |-> found.score[to_index],
                       path |-> path_to(found.prev, from_index, to_index)]
                 ELSE [cost |-> 0, path |-> <<>>]
        ELSE [cost |-> -1, path |-> <<>>]

----------------------------------------------------------------------------
\* Router state: route queries and the flight-plan search
\* (router_state.rs:375-728).

Err(msg) == [ok |-> FALSE, err |-> msg]

\* The check answering yes whatever the cell holds.
is_router_initialized_always(router) == TRUE

\* is_router_initialized (lines 666-668).
is_router_initialized(router) == router.set

\* A lookup that falls back on the first node when the id is not found.
get_node_by_id_or_first(nodes, id) ==
    IF ~nodes.set THEN Err("panic: Nodes not initialized")
    ELSE LET found == {k \in 1..Len(nodes.value) : nodes.value[k].uid = id}
         IN  [ok |-> TRUE,
              node |-> nodes.value[IF found = {} THEN 1
                                   ELSE CHOOSE k \in found : \A m \in found : k <= m]]

\* get_node_by_id: the first node of NODES with that uid.
get_node_by_id(nodes, id) ==
    IF ~nodes.set THEN Err("panic: Nodes not initialized")
    ELSE LET found == {k \in 1..Len(nodes.value) : nodes.value[k].uid = id}
         IN  IF found = {} THEN Err("Node not found by id: " \o id)
             ELSE [ok |-> TRUE,
                   node |-> nodes.value[CHOOSE k \in found : \A m \in found : k <= m]]

\* get_route: the locations along the shortest path and its cost.
get_route(router, from, to) ==
    IF ~router.set
    THEN Err("Arrow XL router not initialized. Try to initialize it first.")
    ELSE LET found == find_shortest_path(router, from, to, "Dijkstra", None)
         IN  [ok |-> TRUE,
              locations |-> [k \in 1..Len(found.path) |->
                               router.graph[found.path[k]].location],
              cost |-> found.cost]

\* estimate_flight_time_minutes, in seconds, of a distance in tenths of a km
\* (an exact quotient for the speed of 60 km/h).
estimate_flight_time_minutes(distance_km) ==
    LOADING_AND_TAKEOFF_TIME_MIN * 60
      + (distance_km * 360) \div AVG_SPEED_KMH
      + LANDING_AND_UNLOADING_TIME_MIN * 60

\* block_aircraft_and_vertiports_minutes (lines 411-413), in seconds.
block_aircraft_and_vertiports_minutes(cost) ==
    estimate_flight_time_minutes(cost)
      + LOADING_AND_TAKEOFF_TIME_MIN * 60 + LANDING_AND_UNLOADING_TIME_MIN * 60

\* The window with a started minute counted as a whole one.
time_window_duration_minutes_up(earliest, latest) ==
    TruncDiv(latest.seconds - earliest.seconds + 59, 60)

\* time_window_duration_minutes (lines 420-422): whole minutes.
time_window_duration_minutes(earliest, latest) ==
    TruncDiv(latest.seconds - earliest.seconds, 60)

\* num_flight_options before the cap (lines 431-435), for a window that is
\* not too small.
uncapped_flight_options(window_minutes, block) ==
    (window_minutes * 60 - block) \div (FLIGHT_PLAN_GAP_MINUTES * 60) + 1

\* The same count with the cap of MAX_RETURNED_FLIGHT_PLANS left out.
num_flight_options_uncapped(window_minutes, block) ==
    uncapped_flight_options(window_minutes, block)

\* num_flight_options (lines 431-438).
num_flight_options(window_minutes, block) ==
    IF uncapped_flight_options(window_minutes, block) > MAX_RETURNED_FLIGHT_PLANS
    THEN MAX_RETURNED_FLIGHT_PLANS
    ELSE uncapped_flight_options(window_minutes, block)

\* The slot times with the gap taken in seconds instead of minutes.
slot_departure_time_gap_in_seconds(earliest, i) ==
    [seconds |-> earliest.seconds + i * FLIGHT_PLAN_GAP_MINUTES,
     nanos |-> earliest.nanos]

\* departure_time of slot i (lines 446-453); every timestamp drawn here is
\* in the range NaiveDateTime::from_timestamp_opt accepts.
slot_departure_time(earliest, i) ==
    [seconds |-> earliest.seconds + i * 60 * FLIGHT_PLAN_GAP_MINUTES,
     nanos |-> earliest.nanos]

\* arrival_time of a slot (lines 454-455): the block in whole minutes.
slot_arrival_time(departure_time, block) ==
    plus_minutes(departure_time, block \div 60)

\* create_flight_plan_data.
create_flight_plan_data(vehicle, departure_vertiport, arrival_vertiport, departure_time, arrival_time) ==
    [vehicle_id |-> vehicle.id,
     departure_vertiport_id |-> departure_vertiport.id,
     destination_vertiport_id |-> arrival_vertiport.id,
     scheduled_departure |-> [seconds |-> timestamp(departure_time),
                              nanos |-> departure_time.nanos],
     scheduled_arrival |-> [seconds |-> timestamp(arrival_time),
                            nanos |-> arrival_time.nanos]]

\* The vehicle loop binding the next vehicle without any check.
available_vehicle_unchecked(vehicles, k, vertiport_depart, departure_time, block, existing_flight_plans) ==
    IF k > Len(vehicles) THEN None ELSE [set |-> TRUE, vehicle |-> vehicles[k]]

\* The vehicle loop without its break: the last vehicle that clears.
RECURSIVE available_vehicle_last(_, _, _, _, _, _)
available_vehicle_last(vehicles, k, vertiport_depart, departure_time, block, existing_flight_plans) ==
    IF k > Len(vehicles) THEN None
    ELSE LET vehicle == vehicles[k]
             where == get_vehicle_scheduled_location(vehicle, departure_time,
                                                     existing_flight_plans)
             later == available_vehicle_last(vehicles, k + 1, vertiport_depart,
                          departure_time, block, existing_flight_plans)
         IN  IF later.set THEN later
             ELSE IF where.vertiport_id # vertiport_depart.id \/ where.minutes_to_arrival > 0
             THEN None
             ELSE IF ~is_vehicle_available(vehicle, departure_time, block \div 60,
                                           existing_flight_plans)
             THEN None
             ELSE [set |-> TRUE, vehicle |-> vehicle]

\* The vehicle loop (lines 493-524): the first vehicle parked at the
\* departure vertiport at the departure time and available for the block.
RECURSIVE available_vehicle(_, _, _, _, _, _)
available_vehicle(vehicles, k, vertiport_depart, departure_time, block, existing_flight_plans) ==
    IF k > Len(vehicles) THEN None
    ELSE LET vehicle == vehicles[k]
             where == get_vehicle_scheduled_location(vehicle, departure_time,
                                                     existing_flight_plans)
         IN  IF where.vertiport_id # vertiport_depart.id \/ where.minutes_to_arrival > 0
             THEN available_vehicle(vehicles, k + 1, vertiport_depart,
                                    departure_time, block, existing_flight_plans)
             ELSE IF ~is_vehicle_available(vehicle, departure_time, block \div 60,
                                           existing_flight_plans)
             THEN available_vehicle(vehicles, k + 1, vertiport_depart,
                                    departure_time, block, existing_flight_plans)
             ELSE [set |-> TRUE, vehicle |-> vehicle]

\* One pass of the slot loop (lines 446-541): the draft plan of slot i, or
\* None when the slot is skipped.
slot_flight_plan(i, vertiport_depart, vertiport_arrive, earliest, block, vehicles, existing_flight_plans) ==
    LET departure_time == slot_departure_time(earliest, i)
        arrival_time == slot_arrival_time(departure_time, block)
        is_departure_vertiport_available ==
            is_vertiport_available(vertiport_depart, departure_time,
                                   existing_flight_plans, TRUE)
        is_arrival_vertiport_available ==
            is_vertiport_available(vertiport_arrive,
                plus_minutes(arrival_time, -LANDING_AND_UNLOADING_TIME_MIN),
                existing_flight_plans, FALSE)
        found == available_vehicle(vehicles, 1, vertiport_depart, departure_time,
                                   block, existing_flight_plans)
    IN  IF ~is_departure_vertiport_available THEN None
        ELSE IF ~is_arrival_vertiport_available THEN None
        ELSE IF ~found.set THEN None
        ELSE [set |-> TRUE,
              plan |-> create_flight_plan_data(found.vehicle, vertiport_depart,
                           vertiport_arrive, departure_time, arrival_time)]

\* The slot loop leaving at the first skipped slot instead of continuing.
RECURSIVE slot_loop_break(_, _, _, _, _, _, _, _)
slot_loop_break(i, n, vertiport_depart, vertiport_arrive, earliest, block, vehicles, existing_flight_plans) ==
    IF i >= n THEN [flight_plans |-> <<>>, slots |-> <<>>]
    ELSE LET draft == slot_flight_plan(i, vertiport_depart, vertiport_arrive,
                          earliest, block, vehicles, existing_flight_plans)
             rest == slot_loop_break(i + 1, n, vertiport_depart, vertiport_arrive,
                          earliest, block, vehicles, existing_flight_plans)
         IN  IF draft.set
             THEN [flight_plans |-> <<draft.plan>> \o rest.flight_plans,
                   slots |-> <<i>> \o rest.slots]
             ELSE [flight_plans |-> <<>>, slots |-> <<i>>]

\* The slot loop (lines 444-542) from slot i on: the plans pushed and the
\* slots evaluated.
RECURSIVE slot_loop(_, _, _, _, _, _, _, _)
slot_loop(i, n, vertiport_depart, vertiport_arrive, earliest, block, vehicles, existing_flight_plans) ==
    IF i >= n THEN [flight_plans |-> <<>>, slots |-> <<>>]
    ELSE LET draft == slot_flight_plan(i, vertiport_depart, vertiport_arrive,
                          earliest, block, vehicles, existing_flight_plans)
             rest == slot_loop(i + 1, n, vertiport_depart, vertiport_arrive,
                          earliest, block, vehicles, existing_flight_plans)
         IN  [flight_plans |-> (IF draft.set THEN <<draft.plan>> ELSE <<>>)
                                 \o rest.flight_plans,
              slots |-> <<i>> \o rest.slots]

\* get_possible_flights from the resolution of the sites on (lines 396-556):
\* ok with the draft plans, or the error; with it the values of the locals
\* the search went through (cost, block, window, num_flight_options before
\* and after the cap, the slots evaluated).
find_possible_flights(nodes, router, vertiport_depart, vertiport_arrive, earliest_departure_time, latest_arrival_time, vehicles, existing_flight_plans) ==
         LET from == get_node_by_id(nodes, vertiport_depart.id)
             to == get_node_by_id(nodes, vertiport_arrive.id)
         IN  IF ~from.ok THEN from
             ELSE IF ~to.ok THEN to
             ELSE LET route == get_route(router, from.node, to.node)
                  IN  IF ~route.ok THEN route
                      ELSE IF route.locations = <<>>
                      THEN Err("Route between vertiports not found")
                      ELSE
    LET block == block_aircraft_and_vertiports_minutes(route.cost)
        window == time_window_duration_minutes(earliest_departure_time,
                                               latest_arrival_time)
        locals == [cost |-> route.cost, block |-> block, window |-> window]
    IN  IF window * 60 - block < 0
        THEN Err("Time window too small to schedule flight") @@ locals
        ELSE LET n == num_flight_options(window, block)
                 loop == slot_loop(0, n, vertiport_depart, vertiport_arrive,
                                   earliest_departure_time, block, vehicles,
                                   existing_flight_plans)
                 searched == locals @@
                     [uncapped |-> uncapped_flight_options(window, block),
                      num_flight_options |-> n, slots |-> loop.slots]
             IN  IF loop.flight_plans = <<>>
                 THEN Err("No flight plans found (deadhead flights not implemented)")
                        @@ searched
                 ELSE [ok |-> TRUE, flight_plans |-> loop.flight_plans] @@ searched

\* get_possible_flights with its first two checks in the other order.
get_possible_flights_router_first(nodes, router, vertiport_depart, vertiport_arrive, earliest_departure_time, latest_arrival_time, vehicles, existing_flight_plans) ==
    IF ~is_router_initialized(router) THEN Err("Router not initialized")
    ELSE IF earliest_departure_time = None \/ latest_arrival_time = None
    THEN Err("Both earliest departure and latest arrival time must be specified")
    ELSE find_possible_flights(nodes, router, vertiport_depart, vertiport_arrive,
             earliest_departure_time, latest_arrival_time, vehicles,
             existing_flight_plans)

\* get_possible_flights (lines 375-556).
get_possible_flights(nodes, router, vertiport_depart, vertiport_arrive, earliest_departure_time, latest_arrival_time, vehicles, existing_flight_plans) ==
    IF earliest_departure_time = None \/ latest_arrival_time = None
    THEN Err("Both earliest departure and latest arrival time must be specified")
    ELSE IF ~is_router_initialized(router) THEN Err("Router not initialized")
    ELSE find_possible_flights(nodes, router, vertiport_depart, vertiport_arrive,
             earliest_departure_time, latest_arrival_time, vehicles,
             existing_flight_plans)

----------------------------------------------------------------------------
\* The flight-plan search on a router built from three sites: s1, s2 at
\* 10 km from it, and s3 at 12.5 km from s1 and 2.5 km from s2.

MaxPlans == 2

SiteIds == {"s1", "s2", "s3"}

SearchSites == <<Node("s1", 0), Node("s2", 100), Node("s3", 125)>>

Vertiport(id, schedule) == [id |-> id, schedule |-> schedule]

Vehicle(id, schedule, last) ==
    [id |-> id, schedule |-> schedule, last_vertiport_id |-> last]

\* The earliest departure time of every request, 600 s after the epoch.
SearchEarliest(nanos) == [seconds |-> 600, nanos |-> nanos]

\* Window lengths in minutes around the blocks of the four legs (40, 42.5,
\* 50 and 52.5 minutes) and a two-hour window.
WindowMinutes == {39, 40, 42, 43, 47, 48, 49, 50, 52, 53, 55, 57, 58, 62, 63, 120}

\* Requests that vary the leg and the window: one vehicle parked at the
\* departure site, no existing plan, calendars always available.
WindowRequests ==
    {[depart |-> Vertiport(d, AlwaysAvailable),
      arrive |-> Vertiport(a, AlwaysAvailable),
      earliest |-> SearchEarliest(en),
      latest |-> [seconds |-> SearchEarliest(en).seconds + w * 60 + x, nanos |-> ln],
      vehicles |-> <<Vehicle("v1", AlwaysAvailable, d)>>,
      plans |-> <<>>] :
     d \in SiteIds, a \in SiteIds, en \in {0, 1}, ln \in {0, 1},
     w \in WindowMinutes, x \in {0, 59}}

\* Existing plans for the requests below (window from 600 s, slots every
\* 300 s), of v1 or v2: a departure from s1 inside the guard band of slots
\* 1 to 5; a flight into s1 landing exactly at slot 1; a late departure from
\* s1 that starts where the whole-minute block of slot 0 on the 12.5 km leg
\* ends.  Of v2 only: a departure from s1 exactly on the lower boundary of
\* slot 0; a landing at s3 next to the lower boundary of the arrival band of
\* slot 0 on the 12.5 km leg; a departure from s2 at the time a flight of
\* slot 1 on the 10 km leg lands there.  Of v1 only: a flight into s1 landing
\* half a minute after slot 1.
SearchPlans ==
    {FlightPlan(v, sh[1], sh[2], sh[3], sh[4]) :
       v \in {"v1", "v2"},
       sh \in {<<"s1", "s2", 1800, 4800>>, <<"s2", "s1", -2100, 900>>,
               <<"s1", "s3", 3720, 6750>>}}
    \cup {FlightPlan("v2", "s1", "s2", 0, 3000),
          FlightPlan("v2", "s2", "s3", -600, 2550),
          FlightPlan("v2", "s2", "s3", 3900, 5850),
          FlightPlan("v1", "s2", "s1", -2070, 930)}

\* Fleets: none, one or two vehicles, last seen at s1 or s2; v1 may work a
\* shift that only covers the blocks of the first slots.
SearchVehicles ==
    {Vehicle("v1", AlwaysAvailable, "s1"), Vehicle("v1", {<<600, 3900>>}, "s1"),
     Vehicle("v1", AlwaysAvailable, "s2"),
     Vehicle("v2", AlwaysAvailable, "s1"), Vehicle("v2", AlwaysAvailable, "s2")}

Fleets ==
    {<<>>} \cup {<<v>> : v \in SearchVehicles}
    \cup {p \in SearchVehicles \X SearchVehicles : p[1].id # p[2].id}

\* Site calendars of the departure and the arrival site: always available,
\* or one of them covering the blocks of the first slots only.
SiteCalendars ==
    {<<AlwaysAvailable, AlwaysAvailable>>, <<{<<600, 2400>>}, AlwaysAvailable>>,
     <<AlwaysAvailable, {<<3000, 6000>>}>>}

\* Requests that vary the schedules: from s1 to s2 or s3, a 95 minute window.
ScheduleRequests ==
    {[depart |-> Vertiport("s1", cal[1]),
      arrive |-> Vertiport(a, cal[2]),
      earliest |-> SearchEarliest(0),
      latest |-> [seconds |-> SearchEarliest(0).seconds + 5700, nanos |-> 0],
      vehicles |-> fleet,
      plans |-> plans] :
     a \in {"s2", "s3"}, cal \in SiteCalendars,
     fleet \in Fleets, plans \in SeqsUpTo(SearchPlans, MaxPlans)}

SearchRequests == WindowRequests \cup ScheduleRequests

GetPossibleFlights ==
    /\ call.op = "none"
    /\ \E req \in SearchRequests :
         call' = [op |-> "get_possible_flights", req |-> req,
                  result |-> get_possible_flights(NODES, ROUTER, req.depart,
                                 req.arrive, req.earliest, req.latest,
                                 req.vehicles, req.plans)]
    /\ UNCHANGED <<NODES, ROUTER, procs>>

\* The state after init_router_from_vertiports on the three sites.
InitFlights ==
    /\ NODES = [set |-> TRUE, value |-> SearchSites]
    /\ ROUTER = RouterNew(SearchSites, ARROW_CARGO_CONSTRAINT)
    /\ call = [op |-> "none"]
    /\ procs = <<>>

NextFlights == GetPossibleFlights

SpecFlights == InitFlights /\ [][NextFlights]_vars

----------------------------------------------------------------------------
\* Properties of the flight-plan search (SpecFlights).

\* The search got as far as a route, and so computed its total block.
Routed == call.op = "get_possible_flights" /\ "block" \in DOMAIN call.result

\* The search got as far as the slot loop.
Searched == call.op = "get_possible_flights"
            /\ "num_flight_options" \in DOMAIN call.result

\* The plans the search returned (none when it failed).
Returned == IF call.result.ok THEN call.result.flight_plans ELSE <<>>

\* a <= b on timestamps.
NotAfter(a, b) ==
    a.seconds < b.seconds \/ (a.seconds = b.seconds /\ a.nanos <= b.nanos)

\* C1: the total block the search uses is T_flight(cost) = T_load +
\* (cost / 60 km/h) * 60 + T_unload minutes (here in seconds, the cost in
\* tenths of a km), 30 minutes for a 10 km leg.
C1_TotalBlockIsFlightTime ==
    Routed =>
      call.result.block =
          60 * LOADING_AND_TAKEOFF_TIME_MIN
            + (call.result.cost * 360) \div AVG_SPEED_KMH
            + 60 * LANDING_AND_UNLOADING_TIME_MIN

\* C2: every returned plan departs no earlier than `earliest` and arrives no
\* later than `latest`.
C2_PlansInsideWindow ==
    call.op = "get_possible_flights" =>
      \A k \in 1..Len(Returned) :
        /\ NotAfter(call.req.earliest, Returned[k].scheduled_departure)
        /\ NotAfter(Returned[k].scheduled_arrival, call.req.latest)

\* The departure time of slot i, in seconds.
SlotStart(i) == call.req.earliest.seconds + i * 60 * FLIGHT_PLAN_GAP_MINUTES

At(seconds) == [seconds |-> seconds, nanos |-> call.req.earliest.nanos]

\* A plan was returned for slot i.
Emitted(i) ==
    \E k \in 1..Len(Returned) : Returned[k].scheduled_departure.seconds = SlotStart(i)

\* Some vehicle is forecast parked at the departure site at the start of
\* slot i and is free (schedule and own plans) for `len` seconds from it.
VehicleFor(i, len) ==
    \E k \in 1..Len(call.req.vehicles) :
      LET v == call.req.vehicles[k]
          where == get_vehicle_scheduled_location(v, At(SlotStart(i)), call.req.plans)
      IN  /\ where.vertiport_id = call.req.depart.id
          /\ where.minutes_to_arrival = 0
          /\ is_available_between(v.schedule, At(SlotStart(i)), At(SlotStart(i) + len))
          /\ \A j \in 1..Len(call.req.plans) :
               LET p == call.req.plans[j]
               IN  ~(/\ p.vehicle_id = v.id
                     /\ p.scheduled_departure.seconds < SlotStart(i) + len
                     /\ SlotStart(i) < p.scheduled_arrival.seconds)

\* The three conditions of slot i for a total block of `len` seconds.
SlotFeasible(i, len) ==
    /\ is_vertiport_available(call.req.depart, At(SlotStart(i)), call.req.plans, TRUE)
    /\ is_vertiport_available(call.req.arrive,
           At(SlotStart(i) + len - 60 * LANDING_AND_UNLOADING_TIME_MIN),
           call.req.plans, FALSE)
    /\ VehicleFor(i, len)

C5_StepsOfOneGap ==
    call.op = "get_possible_flights" =>
      \A k \in 1..(Len(Returned) - 1) :
        Returned[k + 1].scheduled_departure.seconds
          = Returned[k].scheduled_departure.seconds + 60 * FLIGHT_PLAN_GAP_MINUTES

\* C5 amended: from one returned plan to the next the scheduled departure
\* strictly grows, by a whole number of FLIGHT_PLAN_GAPs.
C5_StepsOfWholeGaps ==
    call.op = "get_possible_flights" =>
      \A k \in 1..(Len(Returned) - 1) :
        LET step == Returned[k + 1].scheduled_departure.seconds
                      - Returned[k].scheduled_departure.seconds
        IN  step > 0 /\ step % (60 * FLIGHT_PLAN_GAP_MINUTES) = 0

\* C5 witness: two consecutive returned plans are more than one gap apart.
C5_Witness ==
    /\ call.op = "get_possible_flights"
    /\ \E k \in 1..(Len(Returned) - 1) :
         Returned[k + 1].scheduled_departure.seconds
           > Returned[k].scheduled_departure.seconds + 60 * FLIGHT_PLAN_GAP_MINUTES

\* The scenario of C6: a 10 km leg, a two-hour window, calendars always
\* available, no existing plan, one vehicle last seen at the departure site.
C6_Scenario ==
    /\ Routed
    /\ call.result.cost = 100
    /\ (call.req.latest.seconds - call.req.earliest.seconds) \div 60 = 120
    /\ call.req.depart.schedule = AlwaysAvailable
    /\ call.req.arrive.schedule = AlwaysAvailable
    /\ call.req.plans = <<>>
    /\ Len(call.req.vehicles) = 1
    /\ call.req.vehicles[1].schedule = AlwaysAvailable
    /\ call.req.vehicles[1].last_vertiport_id = call.req.depart.id

\* C6: in that scenario there are 1 + floor((120 - 30)/5) = 19 slots before
\* the cap, and 10 plans are returned, the i-th departing at earliest + 5*i
\* minutes.
C6_NineteenSlotsTenPlans ==
    C6_Scenario =>
      /\ call.result.ok
      /\ call.result.uncapped = 19
      /\ Len(Returned) = MAX_RETURNED_FLIGHT_PLANS
      /\ \A k \in 1..Len(Returned) :
           Returned[k].scheduled_departure.seconds = SlotStart(k - 1)

\* |a - b| < d
Within(a, b, d) == a - b < d /\ b - a < d

\* p's departure is less than T_load from q's at the same departure site,
\* or its arrival less than T_unload from q's at the same arrival site.
TooClose(p, q) ==
    \/ /\ p.departure_vertiport_id = q.departure_vertiport_id
       /\ Within(p.scheduled_departure.seconds, q.scheduled_departure.seconds,
                 60 * LOADING_AND_TAKEOFF_TIME_MIN)
    \/ /\ p.destination_vertiport_id = q.destination_vertiport_id
       /\ Within(p.scheduled_arrival.seconds, q.scheduled_arrival.seconds,
                 60 * LANDING_AND_UNLOADING_TIME_MIN)

\* C7 as claimed: no returned plan is too close to another plan, existing or
\* returned with it.
C7_GuardBandAnyPlan ==
    call.op = "get_possible_flights" =>
      \A k \in 1..Len(Returned) :
        /\ \A j \in 1..Len(call.req.plans) : ~TooClose(Returned[k], call.req.plans[j])
        /\ \A j \in 1..Len(Returned) : j # k => ~TooClose(Returned[k], Returned[j])

\* C7 amended: no returned plan is too close to an existing plan.
C7_GuardBandExistingPlans ==
    call.op = "get_possible_flights" =>
      \A k \in 1..Len(Returned) :
        \A j \in 1..Len(call.req.plans) : ~TooClose(Returned[k], call.req.plans[j])

\* C7 witness: a plan is returned whose departure is exactly T_load after an
\* existing departure from the same site.
C7_Witness ==
    /\ call.op = "get_possible_flights"
    /\ \E k \in 1..Len(Returned), j \in 1..Len(call.req.plans) :
         /\ call.req.plans[j].departure_vertiport_id = Returned[k].departure_vertiport_id
         /\ Returned[k].scheduled_departure.seconds
              = call.req.plans[j].scheduled_departure.seconds
                  + 60 * LOADING_AND_TAKEOFF_TIME_MIN

\* Vehicle k of the request is forecast parked at the departure site at the
\* start of `plan` and passes is_vehicle_available for the block from it.
Clears(k, plan) ==
    LET v == call.req.vehicles[k]
        where == get_vehicle_scheduled_location(v, plan.scheduled_departure,
                                                call.req.plans)
    IN  /\ where.vertiport_id = call.req.depart.id
        /\ where.minutes_to_arrival = 0
        /\ is_vehicle_available(v, plan.scheduled_departure,
                                call.result.block \div 60, call.req.plans)

----------------------------------------------------------------------------
\* Initialization of the two singletons (router_state.rs:584-615, 710-728).

Ok == [ok |-> TRUE]

\* init_router run to its end without interference: the result and the
\* router cell after it.
init_router_rebuild(nodes, router) ==
    IF ~nodes.set
    THEN [result |-> Err("Nodes not initialized. Try to get some nodes first."),
          router |-> router]
    ELSE [result |-> Ok, router |-> RouterNew(nodes.value, ARROW_CARGO_CONSTRAINT)]

\* init_router building a router of no site when NODES is unset.
init_router_without_sites(nodes, router) ==
    IF router.set
    THEN [result |-> Err("Router already initialized. Try to use the router instead of initializing it."),
          router |-> router]
    ELSE [result |-> Ok,
          router |-> RouterNew(IF nodes.set THEN nodes.value ELSE <<>>,
                               ARROW_CARGO_CONSTRAINT)]

init_router(nodes, router) ==
    IF ~nodes.set
    THEN [result |-> Err("Nodes not initialized. Try to get some nodes first."),
          router |-> router]
    ELSE IF router.set
    THEN [result |-> Err("Router already initialized. Try to use the router instead of initializing it."),
          router |-> router]
    ELSE [result |-> Ok, router |-> RouterNew(nodes.value, ARROW_CARGO_CONSTRAINT)]

\* The nodes init_router_from_vertiports makes of the vertiports (a vertiport
\* here is its id and its location).
vertiport_nodes(vertiports) ==
    [k \in 1..Len(vertiports) |-> Node(vertiports[k].id, vertiports[k].location)]

\* init_router_from_vertiports run to its end without interference: the
\* result and both cells after it.
init_router_from_vertiports(vertiports, nodes, router) ==
    IF nodes.set
    THEN [result |-> Err("Failed to set NODES"), nodes |-> nodes, router |-> router]
    ELSE LET stored == [set |-> TRUE, value |-> vertiport_nodes(vertiports)]
             inited == init_router(stored, router)
         IN  [result |-> inited.result, nodes |-> stored, router |-> inited.router]

\* A panic: the call unwinds and nothing is returned to the caller.
Panic(msg) == [ok |-> FALSE, panic |-> msg]

\* get_nearby_nodes storing the nodes generate_nodes_near made (lines
\* 653-663): the result and the site cell after it.
get_nearby_nodes(generated, nodes) ==
    IF nodes.set
    THEN [result |-> Panic("Failed to generate nodes"), nodes |-> nodes]
    ELSE [result |-> [ok |-> TRUE, value |-> generated],
          nodes |-> [set |-> TRUE, value |-> generated]]

----------------------------------------------------------------------------
\* The program: any sequence of initializations, route queries and searches.

\* Two site sets on a line (tenths of a km): the three sites of the search,
\* and one whose s4 lies 200 km away, beyond the 75 km constraint.
ProgramVertiports ==
    {<<[id |-> "s1", location |-> 0], [id |-> "s2", location |-> 100],
       [id |-> "s3", location |-> 125]>>,
     <<[id |-> "s1", location |-> 0], [id |-> "s2", location |-> 100],
       [id |-> "s4", location |-> 2000]>>}

\* Site ids of the requests; no site set holds s9.
ProgramSiteIds == {"s1", "s2", "s4", "s9"}

\* Nodes of the route queries; Node("s9", 50) is in no site set.
ProgramNodes ==
    {Node("s1", 0), Node("s2", 100), Node("s3", 125), Node("s4", 2000),
     Node("s9", 50)}

\* Searches: timestamps present or missing, windows of 39, 50 and 95
\* minutes, no vehicle or one parked at s1, no existing plan.
ProgramRequests ==
    {[depart |-> Vertiport(d, AlwaysAvailable),
      arrive |-> Vertiport(a, AlwaysAvailable),
      earliest |-> e, latest |-> l, vehicles |-> fleet, plans |-> <<>>] :
     d \in ProgramSiteIds, a \in ProgramSiteIds,
     e \in {None, SearchEarliest(0)},
     l \in {None} \cup {Timestamp(SearchEarliest(0).seconds + 60 * w) : w \in {39, 50, 95}},
     fleet \in {<<>>, <<Vehicle("v1", AlwaysAvailable, "s1")>>}}

InitRouterFromVertiports ==
    \E vertiports \in ProgramVertiports :
      LET done == init_router_from_vertiports(vertiports, NODES, ROUTER)
      IN  /\ NODES' = done.nodes
          /\ ROUTER' = done.router
          /\ call' = [op |-> "init_router_from_vertiports",
                      vertiports |-> vertiports, result |-> done.result]
          /\ UNCHANGED procs

InitRouter ==
    LET done == init_router(NODES, ROUTER)
    IN  /\ ROUTER' = done.router
        /\ call' = [op |-> "init_router", result |-> done.result]
        /\ UNCHANGED <<NODES, procs>>

GetRoute ==
    \E from \in ProgramNodes, to \in ProgramNodes :
      /\ call' = [op |-> "get_route", from |-> from, to |-> to,
                  result |-> get_route(ROUTER, from, to)]
      /\ UNCHANGED <<NODES, ROUTER, procs>>

GetPossibleFlightsCall ==
    \E req \in ProgramRequests :
      /\ call' = [op |-> "get_possible_flights", req |-> req,
                  result |-> get_possible_flights(NODES, ROUTER, req.depart,
                                 req.arrive, req.earliest, req.latest,
                                 req.vehicles, req.plans)]
      /\ UNCHANGED <<NODES, ROUTER, procs>>

\* Node lists generate_nodes_near may make (the uids are fresh).
GeneratedNodes ==
    {<<Node("g1", 0), Node("g2", 300)>>, <<Node("g3", 10)>>}

GetNearbyNodes ==
    \E generated \in GeneratedNodes :
      LET done == get_nearby_nodes(generated, NODES)
      IN  /\ NODES' = done.nodes
          /\ call' = [op |-> "get_nearby_nodes", result |-> done.result]
          /\ UNCHANGED <<ROUTER, procs>>

Init == NODES = None /\ ROUTER = None /\ call = [op |-> "none"] /\ procs = <<>>

Next ==
    \/ InitRouterFromVertiports
    \/ InitRouter
    \/ GetRoute
    \/ GetPossibleFlightsCall
    \/ GetNearbyNodes

Spec == Init /\ [][Next]_vars

----------------------------------------------------------------------------
\* Properties of the program (Spec).

\* The errors of get_possible_flights and get_route by kind.
InvalidArgument == Err("Both earliest departure and latest arrival time must be specified")

NotReadySearch == Err("Router not initialized")

NotReadyRoute == Err("Arrow XL router not initialized. Try to initialize it first.")

\* The site id is the id of a site of the active site set.
KnownSite(id) == NODES.set /\ \E k \in 1..Len(NODES.value) : NODES.value[k].uid = id

\* C13: get_possible_flights fails with the missing-timestamp error whenever
\* earliest_departure_time or latest_arrival_time is missing, whatever the
\* state of the router and whether or not the sites are known.
C13_MissingTimestampFirst ==
    (/\ call.op = "get_possible_flights"
     /\ (call.req.earliest = None \/ call.req.latest = None))
      => call.result = InvalidArgument

\* C13 witness: a timestamp is missing, the router is not initialized and
\* the departure site is unknown; the error is the missing timestamp.
C13_Witness ==
    /\ call.op = "get_possible_flights"
    /\ call.req.latest = None /\ call.req.earliest # None
    /\ ~ROUTER.set
    /\ call.req.depart.id = "s9"
    /\ call.result = InvalidArgument

\* C14: while the router is not initialized, get_possible_flights with both
\* timestamps present and get_route return their not-initialized error, and
\* neither call changes NODES or ROUTER.
C14_NotReadyWhileUninitialized ==
    /\ [](~ROUTER.set =>
            /\ (/\ call.op = "get_possible_flights"
                /\ call.req.earliest # None /\ call.req.latest # None)
                 => call.result = NotReadySearch
            /\ call.op = "get_route" => call.result = NotReadyRoute)
    /\ [][call'.op \in {"get_possible_flights", "get_route"}
            => NODES' = NODES /\ ROUTER' = ROUTER]_vars

\* C14 witness: a search with both timestamps and known-looking site ids
\* made before any initialization is answered with the error.
C14_Witness ==
    /\ ~ROUTER.set
    /\ call.op = "get_possible_flights"
    /\ call.req.earliest # None /\ call.req.latest # None
    /\ call.req.depart.id = "s1" /\ call.req.arrive.id = "s2"
    /\ call.result = NotReadySearch

NotFound(id) == Err("Node not found by id: " \o id)

\* The site of the active site set with that id.
SiteOf(id) == CHOOSE n \in {NODES.value[k] : k \in 1..Len(NODES.value)} : n.uid = id

\* C15: with the router initialized and both timestamps present,
\* get_possible_flights fails with the not-found error of the departure id,
\* or else of the arrival id, when that id is the id of no site of the
\* active site set; with both ids present it does not, and the route it
\* computes is the one between the sites with those ids.
C15_UnknownSiteNotFound ==
    (/\ call.op = "get_possible_flights"
     /\ ROUTER.set
     /\ call.req.earliest # None /\ call.req.latest # None)
      => IF ~KnownSite(call.req.depart.id)
         THEN call.result = NotFound(call.req.depart.id)
         ELSE IF ~KnownSite(call.req.arrive.id)
         THEN call.result = NotFound(call.req.arrive.id)
         ELSE /\ \A id \in ProgramSiteIds : call.result # NotFound(id)
              /\ "cost" \in DOMAIN call.result =>
                   call.result.cost =
                     find_shortest_path(ROUTER, SiteOf(call.req.depart.id),
                                        SiteOf(call.req.arrive.id),
                                        "Dijkstra", None).cost

\* C15 witness: the departure site is a site of the set, the arrival site
\* is not, and the search fails with the not-found error of the arrival id.
C15_Witness ==
    /\ call.op = "get_possible_flights"
    /\ ROUTER.set
    /\ KnownSite(call.req.depart.id) /\ ~KnownSite(call.req.arrive.id)
    /\ call.result = NotFound(call.req.arrive.id)

Unroutable == Err("Route between vertiports not found")

\* There is a directed path of at most n edges of the router from a to b.
RECURSIVE PathWithin(_, _, _)
PathWithin(a, b, n) ==
    \/ a = b
    \/ /\ n > 0
       /\ \E e \in 1..Len(ROUTER.edges) :
            ROUTER.edges[e].from = a /\ PathWithin(ROUTER.edges[e].to, b, n - 1)

\* C16: get_possible_flights fails with the no-route error exactly when the
\* shortest-path query between the two sites returns an empty path; for
\* known sites that is exactly when the endpoints are distinct and no
\* directed path leads from the departure to the arrival site; no slot is
\* evaluated then.
C16_UnroutableIffEmptyPath ==
    call.op = "get_possible_flights" =>
      LET resolved == /\ ROUTER.set
                      /\ call.req.earliest # None /\ call.req.latest # None
                      /\ KnownSite(call.req.depart.id)
                      /\ KnownSite(call.req.arrive.id)
          from == SiteOf(call.req.depart.id)
          to == SiteOf(call.req.arrive.id)
      IN  /\ call.result = Unroutable => resolved
          /\ resolved =>
               /\ call.result = Unroutable
                    <=> find_shortest_path(ROUTER, from, to, "Dijkstra", None).path = <<>>
               /\ call.result = Unroutable
                    <=> (from # to /\ ~PathWithin(from, to, Len(ROUTER.graph)))
          /\ call.result.ok = FALSE /\ call.result.err = Unroutable.err
               => "slots" \notin DOMAIN call.result

\* C16 witness: both sites are known and distinct, no path leads from one
\* to the other, and the search fails with the no-route error.
C16_Witness ==
    /\ call.op = "get_possible_flights"
    /\ ROUTER.set
    /\ KnownSite(call.req.depart.id) /\ KnownSite(call.req.arrive.id)
    /\ call.req.depart.id # call.req.arrive.id
    /\ ~PathWithin(SiteOf(call.req.depart.id), SiteOf(call.req.arrive.id),
                   Len(ROUTER.graph))
    /\ call.result = Unroutable

----------------------------------------------------------------------------
\* Properties of the failures of the flight-plan search (SpecFlights).

\* The search failed with this message.
FailedWith(msg) == ~call.result.ok /\ call.result.err = msg

WindowTooSmall == "Time window too small to schedule flight"

NoFeasibleSlot == "No flight plans found (deadhead flights not implemented)"

\* The window in seconds.
WindowSeconds == call.req.latest.seconds - call.req.earliest.seconds

C18_NoFeasibleSlotIffAllRejected ==
    /\ Routed =>
         (FailedWith(NoFeasibleSlot)
            <=> /\ 60 * (WindowSeconds \div 60) >= call.result.block
                /\ Searched
                /\ \A k \in 1..Len(call.result.slots) :
                     ~SlotFeasible(call.result.slots[k],
                                   60 * (call.result.block \div 60)))
    /\ (call.op = "get_possible_flights" /\ call.result.ok)
         => Len(call.result.flight_plans) >= 1

\* C18 witness: several slots were evaluated with a vehicle in the fleet and
\* a departure site that is available for some of them, every slot was
\* rejected, and the search fails with the no-flight-plans error.
C18_Witness ==
    /\ Searched
    /\ FailedWith(NoFeasibleSlot)
    /\ Len(call.result.slots) >= 2
    /\ call.req.vehicles # <<>>
    /\ \E k \in 1..Len(call.result.slots) :
         is_vertiport_available(call.req.depart, At(SlotStart(call.result.slots[k])),
                                call.req.plans, TRUE)

----------------------------------------------------------------------------
\* Properties of the initialization (Spec).

InitOps == {"init_router_from_vertiports", "init_router"}

\* C19: over any sequence of init_router_from_vertiports, init_router,
\* get_route and get_possible_flights calls, once the router is set no call
\* changes it, and every initialization attempted after that returns an
\* error.
C19_RouterSetAtMostOnce ==
    [][ROUTER.set =>
         /\ ROUTER' = ROUTER
         /\ call'.op \in InitOps => ~call'.result.ok]_vars

\* C19 witness: an initialization from another site set is attempted on an
\* initialized router and fails; the router holds the sites stored first.
C19_Witness ==
    /\ ROUTER.set
    /\ call.op = "init_router_from_vertiports"
    /\ ~call.result.ok
    /\ vertiport_nodes(call.vertiports) # NODES.value
    /\ \A k \in 1..Len(ROUTER.graph) :
         \E n \in 1..Len(NODES.value) : ROUTER.graph[k] = NODES.value[n]

----------------------------------------------------------------------------
\* Concurrent initialization: every caller makes one call of
\* init_router_from_vertiports or init_router, and the calls interleave at
\* their accesses to the two cells.

NumCallers == 2

Callers == 1..NumCallers

\* The caller returned.
Return(p, result) == [procs EXCEPT ![p] = [@ EXCEPT !.pc = "done"] @@ [result |-> result]]

Goto(p, pc) == [procs EXCEPT ![p].pc = pc]

CallInitRouterFromVertiports(p) ==
    /\ procs[p].pc = "idle"
    /\ \E vertiports \in ProgramVertiports :
         procs' = [procs EXCEPT ![p] = [op |-> "init_router_from_vertiports",
                                        vertiports |-> vertiports,
                                        pc |-> "set_nodes"]]
    /\ UNCHANGED <<NODES, ROUTER, call>>

CallInitRouter(p) ==
    /\ procs[p].pc = "idle"
    /\ procs' = [procs EXCEPT ![p] = [op |-> "init_router", pc |-> "check_nodes"]]
    /\ UNCHANGED <<NODES, ROUTER, call>>

\* NODES.set(nodes).map_err(|_| "Failed to set NODES")? (line 613).
SetNodes(p) ==
    /\ procs[p].pc = "set_nodes"
    /\ IF NODES.set
       THEN /\ procs' = Return(p, Err("Failed to set NODES"))
            /\ UNCHANGED NODES
       ELSE /\ NODES' = [set |-> TRUE, value |-> vertiport_nodes(procs[p].vertiports)]
            /\ procs' = Goto(p, "check_nodes")
    /\ UNCHANGED <<ROUTER, call>>

\* if NODES.get().is_none() (lines 711-713).
CheckNodes(p) ==
    /\ procs[p].pc = "check_nodes"
    /\ procs' = IF ~NODES.set
                THEN Return(p, Err("Nodes not initialized. Try to get some nodes first."))
                ELSE Goto(p, "check_router")
    /\ UNCHANGED <<NODES, ROUTER, call>>

\* if ARROW_CARGO_ROUTER.get().is_some() (lines 714-719).
CheckRouter(p) ==
    /\ procs[p].pc = "check_router"
    /\ procs' = IF ROUTER.set
                THEN Return(p, Err("Router already initialized. Try to use the router instead of initializing it."))
                ELSE Goto(p, "new_router")
    /\ UNCHANGED <<NODES, ROUTER, call>>

\* Router::new(NODES.get().as_ref().unwrap(), ..) (lines 722-727).
NewRouter(p) ==
    /\ procs[p].pc = "new_router"
    /\ procs' = [procs EXCEPT ![p] = [@ EXCEPT !.pc = "set_router"]
                    @@ [built |-> RouterNew(NODES.value, ARROW_CARGO_CONSTRAINT)]]
    /\ UNCHANGED <<NODES, ROUTER, call>>

\* A store that replaces whatever the cell holds.
SetRouterOverwrite(p) ==
    /\ procs[p].pc = "set_router"
    /\ ROUTER' = procs[p].built
    /\ procs' = Return(p, Ok)
    /\ UNCHANGED <<NODES, call>>

\* ARROW_CARGO_ROUTER.set(..).map_err(|_| "Failed to initialize router")
\* (lines 720-728).
SetRouter(p) ==
    /\ procs[p].pc = "set_router"
    /\ IF ROUTER.set
       THEN /\ procs' = Return(p, Err("Failed to initialize router"))
            /\ UNCHANGED ROUTER
       ELSE /\ ROUTER' = procs[p].built
            /\ procs' = Return(p, Ok)
    /\ UNCHANGED <<NODES, call>>

InitCallers ==
    /\ NODES = None /\ ROUTER = None /\ call = [op |-> "none"]
    /\ procs = [p \in Callers |-> [op |-> "none", pc |-> "idle"]]

NextCallers ==
    \E p \in Callers :
      \/ CallInitRouterFromVertiports(p)
      \/ CallInitRouter(p)
      \/ SetNodes(p)
      \/ CheckNodes(p)
      \/ CheckRouter(p)
      \/ NewRouter(p)
      \/ SetRouter(p)

SpecCallers == InitCallers /\ [][NextCallers]_vars

----------------------------------------------------------------------------
\* Properties of the concurrent initialization (SpecCallers).

AllReturned == \A p \in Callers : procs[p].pc = "done"

Succeeded == {p \in Callers : procs[p].pc = "done" /\ procs[p].result.ok}

\* The errors of a store into, or a check of, a cell that is already set.
AlreadyInitialized ==
    {Err("Failed to set NODES"),
     Err("Router already initialized. Try to use the router instead of initializing it."),
     Err("Failed to initialize router")}

\* The router is the one built from the site set stored in NODES.
BuiltFromStoredSites ==
    /\ NODES.set
    /\ ROUTER = RouterNew(NODES.value, ARROW_CARGO_CONSTRAINT)
    /\ \E p \in Callers :
         /\ procs[p].op = "init_router_from_vertiports"
         /\ NODES.value = vertiport_nodes(procs[p].vertiports)

\* C20 as claimed: when all concurrent initializations have returned,
\* exactly one has succeeded, every other has returned an
\* already-initialized error, and the router is built from the one site
\* set that was stored.
C20_ExactlyOneSucceeds ==
    AllReturned =>
      /\ Cardinality(Succeeded) = 1
      /\ \A p \in Callers \ Succeeded : procs[p].result \in AlreadyInitialized
      /\ BuiltFromStoredSites

\* C20 amended: at most one call ever succeeds; once all have returned,
\* exactly one has succeeded if some call was init_router_from_vertiports
\* and none otherwise; every other call has returned an error, an
\* already-initialized one or, for an init_router that read NODES before any
\* site set was stored, the nodes-not-initialized one; the router is set
\* exactly when a call succeeded, and is then built from the one site set
\* that was stored.
C20_AtMostOneSucceeds ==
    /\ Cardinality(Succeeded) <= 1
    /\ ROUTER.set <=> Succeeded # {}
    /\ ROUTER.set => BuiltFromStoredSites
    /\ AllReturned =>
         /\ Succeeded # {}
              <=> \E p \in Callers : procs[p].op = "init_router_from_vertiports"
         /\ \A p \in Callers \ Succeeded :
              \/ procs[p].result \in AlreadyInitialized
              \/ /\ procs[p].op = "init_router"
                 /\ procs[p].result = Err("Nodes not initialized. Try to get some nodes first.")

\* C20 witness: two calls both found the router unset and built one; the
\* first store succeeded and the second failed.
C20_Witness ==
    /\ AllReturned
    /\ Cardinality(Succeeded) = 1
    /\ \E p \in Callers : procs[p].result = Err("Failed to initialize router")

----------------------------------------------------------------------------
\* Properties of the two cells (Spec).

\* C21: an attempt to set the site cell when it is already set, through
\* init_router_from_vertiports or through get_nearby_nodes, returns an
\* already-initialized error to the caller and leaves the stored site set
\* unchanged.
C21_SiteResetReturnsError ==
    [][(NODES.set /\ call'.op \in {"init_router_from_vertiports", "get_nearby_nodes"})
         => /\ call'.result \in AlreadyInitialized
            /\ NODES' = NODES]_vars

\* The elements of a sequence.
Range(s) == {s[k] : k \in 1..Len(s)}

\* C22: the router is set only if the site set is, and its vertices are
\* then exactly the stored sites; init_router called while the site set is
\* unset returns an error and leaves the router unset.
C22_SitesBeforeRouter ==
    /\ [](ROUTER.set => NODES.set /\ Range(ROUTER.graph) = Range(NODES.value))
    /\ [][(~NODES.set /\ call'.op = "init_router")
            => ~call'.result.ok /\ ~ROUTER'.set]_vars

\* C22 witness: init_router succeeded on a stored site set of two sites,
\* which are the router's two vertices.
C22_Witness ==
    /\ call.op = "init_router"
    /\ call.result.ok
    /\ NODES.set /\ ROUTER.set
    /\ Len(NODES.value) = 2 /\ Len(ROUTER.graph) = 2

----------------------------------------------------------------------------
\* The router engine on its own: one call of build_edges, Router::new or
\* find_shortest_path on a site list and a range constraint.

\* Site lists (site ids are unique within a list): empty, a single site, a
\* chain with 50 km hops, the chain with a far site, the same sites in
\* another order, two sites at one place, and a site behind the start.
RouterSiteLists ==
    { <<>>,
      <<Node("a", 0)>>,
      <<Node("a", 0), Node("b", 500), Node("c", 1000)>>,
      <<Node("a", 0), Node("b", 500), Node("c", 1000), Node("d", 5000)>>,
      <<Node("d", 5000), Node("c", 1000), Node("a", 0), Node("b", 500)>>,
      <<Node("a", 0), Node("e", 0), Node("c", 600)>>,
      <<Node("a", 0), Node("u", -400), Node("c", 700), Node("b", 1500)>> }

\* Range constraints in km: nothing but co-located sites, the cargo range,
\* and a range that joins every pair of a chain.
RouterConstraints == {0, ARROW_CARGO_CONSTRAINT, 120}

\* A node that is in no site list.
UnknownNode == Node("x", 250)

\* Heuristics: none, or a function of the vertex index (zero, or growing
\* with the index, which overestimates).
Heuristics(router) ==
    {None} \cup {[set |-> TRUE, f |-> [v \in 1..Len(router.graph) |-> k * v]] : k \in {0, 400}}

Algorithm == {"Dijkstra", "AStar"}

BuildEdgesCall ==
    /\ call.op = "none"
    /\ \E nodes \in RouterSiteLists, constraint \in RouterConstraints :
          call' = [op |-> "build_edges", nodes |-> nodes, constraint |-> constraint,
                   edges |-> build_edges(nodes, constraint)]
    /\ UNCHANGED <<NODES, ROUTER, procs>>

RouterNewCall ==
    /\ call.op = "none"
    /\ \E nodes \in RouterSiteLists, constraint \in RouterConstraints :
          call' = [op |-> "Router::new", nodes |-> nodes, constraint |-> constraint,
                   router |-> RouterNew(nodes, constraint)]
    /\ UNCHANGED <<NODES, ROUTER, procs>>

FindShortestPathCall ==
    /\ call.op = "none"
    /\ \E nodes \in RouterSiteLists, constraint \in RouterConstraints :
          LET router == RouterNew(nodes, constraint)
          IN  \E from \in Range(nodes) \cup {UnknownNode},
                 to \in Range(nodes) \cup {UnknownNode},
                 algorithm \in Algorithm,
                 heuristic_function \in Heuristics(router) :
                   call' = [op |-> "find_shortest_path", nodes |-> nodes,
                            constraint |-> constraint, router |-> router,
                            from |-> from, to |-> to, algorithm |-> algorithm,
                            heuristic_function |-> heuristic_function,
                            result |-> find_shortest_path(router, from, to,
                                          algorithm, heuristic_function)]
    /\ UNCHANGED <<NODES, ROUTER, procs>>

InitRouterEngine ==
    /\ NODES = None
    /\ ROUTER = None
    /\ call = [op |-> "none"]
    /\ procs = <<>>

NextRouterEngine == BuildEdgesCall \/ RouterNewCall \/ FindShortestPathCall

SpecRouterEngine == InitRouterEngine /\ [][NextRouterEngine]_vars

\* The graph of the call: its vertices and what one call built.
Built == call.op \in {"Router::new", "find_shortest_path"}
IsVertex(router, node) == \E k \in 1..Len(router.graph) : router.graph[k] = node

\* C23: the router built from a site list has a vertex for every site of the
\* list, isolated sites included: the vertex count is the number of input
\* sites and every input site has a vertex index.
C23_VertexForEverySite ==
    Built =>
        /\ Len(call.router.graph) = Len(call.nodes)
        /\ Range(call.router.graph) = Range(call.nodes)
        /\ \A k \in 1..Len(call.nodes) :
              /\ get_node_index(call.router, call.nodes[k]) \in 1..Len(call.router.graph)
              /\ call.router.graph[get_node_index(call.router, call.nodes[k])] = call.nodes[k]

\* A site of the list that no edge touches.
Isolated(node) ==
    /\ node \in Range(call.nodes)
    /\ \A k \in 1..Len(call.router.edges) :
          call.router.edges[k].from # node /\ call.router.edges[k].to # node

\* C23's case: a router built from four sites, one of them isolated while
\* the others have edges.
C23_Witness ==
    /\ call.op = "Router::new"
    /\ Len(call.nodes) = 4
    /\ call.router.edges # <<>>
    /\ \E node \in Range(call.nodes) : Isolated(node)
    /\ Len(call.router.graph) = 4

\* The edge list one call produced, and the position of a site in its list.
EdgesBuilt == IF call.op = "build_edges" THEN call.edges ELSE call.router.edges
Position(node) == CHOOSE k \in 1..Len(call.nodes) : call.nodes[k] = node
WithinRange(u, v) == distance(u.location, v.location) <= call.constraint * 10
Pairs == {p \in Range(call.nodes) \X Range(call.nodes) : p[1] # p[2]}

\* C24: build_edges returns exactly the ordered pairs of distinct sites
\* within the range, each once, weighted with their distance, in the order
\* of the nested loops (outer `from`, inner `to`); so there is no self-loop,
\* the count is at most |S| * (|S| - 1) with equality iff every pair is
\* within range, and the router built from the list has the same edges.
C24_EdgesAreThePairsWithinRange ==
    call.op \in {"build_edges", "Router::new"} =>
        LET edges == EdgesBuilt
            n == Len(call.nodes)
        IN  /\ \A k \in 1..Len(edges) :
                  /\ <<edges[k].from, edges[k].to>> \in Pairs
                  /\ WithinRange(edges[k].from, edges[k].to)
                  /\ edges[k].cost = distance(edges[k].from.location, edges[k].to.location)
            /\ \A p \in Pairs :
                  WithinRange(p[1], p[2]) =>
                      Cardinality({k \in 1..Len(edges) :
                          edges[k].from = p[1] /\ edges[k].to = p[2]}) = 1
            /\ \A k \in 1..Len(edges), l \in 1..Len(edges) :
                  k < l =>
                      \/ Position(edges[k].from) < Position(edges[l].from)
                      \/ /\ Position(edges[k].from) = Position(edges[l].from)
                         /\ Position(edges[k].to) < Position(edges[l].to)
            /\ Len(edges) <= n * (n - 1)
            /\ Len(edges) = n * (n - 1) <=> \A p \in Pairs : WithinRange(p[1], p[2])
            /\ call.op = "Router::new" =>
                  Len(call.router.edges) = Len(build_edges(call.nodes, call.constraint))

\* C24's case: four sites of which some pairs are within range and some are
\* not, so that edges were emitted and the count stays below the maximum.
C24_Witness ==
    /\ call.op = "build_edges"
    /\ Len(call.nodes) = 4
    /\ call.edges # <<>>
    /\ Len(call.edges) < 12
    /\ \E p \in Pairs : ~WithinRange(p[1], p[2])

\* One find_shortest_path call and its endpoints.
Queried == call.op = "find_shortest_path"
Sentinel == [cost |-> -1, path |-> <<>>]
NoPath == [cost |-> 0, path |-> <<>>]
FromIndex == get_node_index(call.router, call.from)
ToIndex == get_node_index(call.router, call.to)

\* C25: find_shortest_path returns the sentinel (-1, []) exactly when `from`
\* or `to` is no vertex of the router, whatever the algorithm tag and the
\* heuristic; every call returns a cost and a path.
C25_SentinelIffUnknownEndpoint ==
    Queried =>
        /\ DOMAIN call.result = {"cost", "path"}
        /\ call.result = Sentinel
              <=> ~(IsVertex(call.router, call.from) /\ IsVertex(call.router, call.to))
        /\ call.result.cost = -1 <=> call.result = Sentinel

\* C25's case: a query under the AStar tag with a heuristic, from a vertex
\* to a node that is no vertex, answered with the sentinel.
C25_Witness ==
    /\ Queried
    /\ call.algorithm = "AStar" /\ call.heuristic_function # None
    /\ IsVertex(call.router, call.from) /\ ~IsVertex(call.router, call.to)
    /\ call.result = Sentinel

\* Directed walks of the router's graph, as sequences of vertex indices.
Vertices == 1..Len(call.router.graph)
HasEdge(u, v) ==
    \E k \in 1..Len(call.router.edges) :
        /\ call.router.edges[k].from = call.router.graph[u]
        /\ call.router.edges[k].to = call.router.graph[v]
Walks(u, v) ==
    {p \in SeqsUpTo(Vertices, Len(call.router.graph)) :
        /\ p # <<>> /\ p[1] = u /\ p[Len(p)] = v
        /\ \A k \in 1..(Len(p) - 1) : HasEdge(p[k], p[k + 1])}
Reachable(u, v) == Walks(u, v) # {}

\* C26: a query between two vertices with no directed path from the first
\* to the second returns (0, []).
C26_NoPathReturnsZeroAndEmpty ==
    (Queried /\ FromIndex # 0 /\ ToIndex # 0 /\ ~Reachable(FromIndex, ToIndex))
        => call.result = NoPath

\* C26's case: a query from a site that has edges to a site the range
\* constraint isolates, answered with (0, []).
C26_Witness ==
    /\ Queried /\ FromIndex # 0 /\ ToIndex # 0
    /\ call.router.edges # <<>>
    /\ \E k \in 1..Len(call.router.edges) : call.router.edges[k].from = call.from
    /\ Isolated(call.to)
    /\ call.result = NoPath

\* C27: a query from a vertex to itself returns cost 0 and the path of that
\* one vertex, also for an isolated vertex; the non-empty path tells it
\* apart from the no-path result.
C27_SelfPathIsTheVertex ==
    (Queried /\ call.from = call.to /\ FromIndex # 0)
        => /\ call.result = [cost |-> 0, path |-> <<FromIndex>>]
           /\ call.result # NoPath

\* C27's case: a self query on an isolated vertex of a router that has
\* edges elsewhere.
C27_Witness ==
    /\ Queried /\ call.from = call.to /\ FromIndex # 0
    /\ call.router.edges # <<>>
    /\ Isolated(call.from)
    /\ call.result.cost = 0 /\ Len(call.result.path) = 1

Weight(u, v) ==
    LET k == CHOOSE k \in 1..Len(call.router.edges) :
                /\ call.router.edges[k].from = call.router.graph[u]
                /\ call.router.edges[k].to = call.router.graph[v]
    IN  call.router.edges[k].cost
RECURSIVE WalkCost(_)
WalkCost(p) == IF Len(p) <= 1 THEN 0 ELSE Weight(p[1], p[2]) + WalkCost(Tail(p))

OtherTag(algorithm) == IF algorithm = "Dijkstra" THEN "AStar" ELSE "Dijkstra"

\* C29: when a directed path exists, a query without a heuristic returns a
\* path that starts at `from`, ends at `to` and follows edges of the graph,
\* with the sum of its edge weights as cost, and no walk from `from` to `to`
\* costs less; the other algorithm tag gives the same result.
C29_ShortestPathWithZeroHeuristic ==
    (Queried /\ call.heuristic_function = None
       /\ FromIndex # 0 /\ ToIndex # 0 /\ Reachable(FromIndex, ToIndex))
        => /\ call.result.path \in Walks(FromIndex, ToIndex)
           /\ call.result.cost = WalkCost(call.result.path)
           /\ \A p \in Walks(FromIndex, ToIndex) : call.result.cost <= WalkCost(p)
           /\ call.result = find_shortest_path(call.router, call.from, call.to,
                                OtherTag(call.algorithm), None)

\* C29's case: a query under the AStar tag without heuristic between two
\* sites joined only through other sites, where a costlier walk exists.
C29_Witness ==
    /\ Queried /\ call.heuristic_function = None /\ call.algorithm = "AStar"
    /\ FromIndex # 0 /\ ToIndex # 0
    /\ ~HasEdge(FromIndex, ToIndex)
    /\ Len(call.result.path) = 3
    /\ \E p \in Walks(FromIndex, ToIndex) : WalkCost(p) > call.result.cost

----------------------------------------------------------------------------
\* What the endpoint checks of the slot loop read (SpecFlights).

\* The existing plans that depart from the departure site, and those that
\* arrive at the arrival site.
DepartingFromDeparture ==
    SelectSeq(call.req.plans, LAMBDA p : p.departure_vertiport_id = call.req.depart.id)
ArrivingAtArrival ==
    SelectSeq(call.req.plans, LAMBDA p : p.destination_vertiport_id = call.req.arrive.id)

\* C30: the departure-endpoint check of a slot depends only on the existing
\* plans that depart from the departure site, and the arrival-endpoint check
\* only on those that arrive at the arrival site: a plan landing at the
\* departure site (or leaving the arrival site) at any time never makes
\* either check fail, and a slot yields a plan exactly when the two checks on
\* those plans pass and a vehicle clears.
C30_EndpointChecksReadOwnRoleOnly ==
    Searched =>
      \A i \in 0..(call.result.num_flight_options - 1) :
        LET len == 60 * (call.result.block \div 60)
            t_d == At(SlotStart(i))
            t_l == At(SlotStart(i) + len - 60 * LANDING_AND_UNLOADING_TIME_MIN)
            departure_ok ==
                is_vertiport_available(call.req.depart, t_d, DepartingFromDeparture, TRUE)
            arrival_ok ==
                is_vertiport_available(call.req.arrive, t_l, ArrivingAtArrival, FALSE)
        IN  /\ is_vertiport_available(call.req.depart, t_d, call.req.plans, TRUE)
                 <=> departure_ok
            /\ is_vertiport_available(call.req.arrive, t_l, call.req.plans, FALSE)
                 <=> arrival_ok
            /\ Emitted(i) <=> (departure_ok /\ arrival_ok /\ VehicleFor(i, len))

\* C30's case: a plan is returned whose departure is the very second at
\* which an existing plan of another aircraft lands at the departure site,
\* and whose arrival is the very second at which an existing plan of another
\* aircraft leaves the arrival site.
C30_Witness ==
    /\ Searched
    /\ \E k \in 1..Len(Returned), j \in 1..Len(call.req.plans), l \in 1..Len(call.req.plans) :
         /\ call.req.plans[j].destination_vertiport_id = Returned[k].departure_vertiport_id
         /\ call.req.plans[j].scheduled_arrival = Returned[k].scheduled_departure
         /\ call.req.plans[j].vehicle_id # Returned[k].vehicle_id
         /\ call.req.plans[l].departure_vertiport_id = Returned[k].destination_vertiport_id
         /\ call.req.plans[l].scheduled_departure = Returned[k].scheduled_arrival
         /\ call.req.plans[l].vehicle_id # Returned[k].vehicle_id

====
